---- MODULE Spec2Model ----
(***************************************************************************)
(* Model of finance-ai/rabbitmq_consumer.py: the anomaly-detection worker  *)
(* (on_message, setup_topology, start_consumer) together with the broker   *)
(* it talks to, the ledger it fetches from and the scoring oracle of       *)
(* finance-ai/anomaly_detector.py.                                         *)
(*                                                                         *)
(* The broker is modelled by what the declarations of setup_topology make  *)
(* it do: exchanges route a published message to the queues bound with     *)
(* its routing key, the default exchange routes to the queue named by the  *)
(* routing key, and a message rejected without requeue is re-routed        *)
(* through the dead-letter exchange named in its queue's arguments.        *)
(*                                                                         *)
(* A second part models the Flask server of finance-ai/app.py as far as    *)
(* it shares state between requests: the category classifier of            *)
(* finance-ai/category_classifier.py, whose model handle _pipeline and     *)
(* model file are written by POST /train and read by POST /categorize and  *)
(* POST /categorize-detail, and POST /anomalies, which applies the scoring *)
(* oracle to the records of the request.                                   *)
(***************************************************************************)
EXTENDS Integers, Sequences, FiniteSets, TLC

\* ------------------------------------------------------------------ names

INPUT_QUEUE == "ai.anomaly.queue"
RESULT_QUEUE == "ai.anomaly.results"
DLQ == "ai.anomaly.dlq"
EXCHANGE == "finance.exchange"
DLX == "finance.dlx"
MAX_RETRIES == 3

QueueNames == {INPUT_QUEUE, RESULT_QUEUE, DLQ}

\* ----------------------------------------------------------------- bounds

\* connection attempts that fail plus connections that drop
MaxFaults == 1
\* the largest retry counter an upstream producer sends by itself
MaxProducerCount == 4

\* the worker processes consuming the input queue
Workers == {"w1", "w2"}

\* the events the model follows; an event's id is its place in the order of
\* sending
EventIds == {1, 2}

\* the events the upstream producer sends when it sends one event of any kind
SingleEvent == {1}

\* --------------------------------------------------------- message values

\* The header dict of a message: a set of <<key, value>> pairs.  The empty set
\* stands for both "no headers" (None) and an empty dict: the code tests
\* truthiness.
NoHeaders == {}

HasKey(h, k) == \E p \in h : p[1] = k

\* dict.get(k, default)
Get(h, k, default) == IF HasKey(h, k) THEN (CHOOSE p \in h : p[1] = k)[2] ELSE default

\* A value as AMQP headers and JSON carry it: an integer or a string.
IntValue(n) == [int |-> n]

StrValue(text) == [str |-> text]

\* int(value) raises ValueError for a string that is not a number
IntRaises(value) == "int" \notin DOMAIN value

\* int(value): -1 stands for ValueError
int(value) == IF IntRaises(value) THEN -1 ELSE value.int

\* line 106 raises: there are headers and the counter among them is not a number
RetryCountRaises(headers) ==
    headers # NoHeaders /\ IntRaises(Get(headers, "x-retry-count", IntValue(0)))

\* Mutant: the counter starts at 0 in every call and the headers are not read.
retry_count_not_read(headers) == 0 * Cardinality(headers)

\* int(properties.headers.get("x-retry-count", 0)) when there are headers, else 0
retry_count(headers) ==
    IF headers # NoHeaders THEN int(Get(headers, "x-retry-count", IntValue(0))) ELSE 0

\* The bodies an upstream producer sends, as text.
BodyMalformed == "{oops"
BodyBadCompany == "{companyId:abc,txnIds:[1]}"
BodyNoTxnIds == "{companyId:7}"
BodyEmptyTxnIds == "{companyId:7,txnIds:[]}"
BodyGood == "{companyId:7,txnIds:[1,2,3]}"

Bodies == {BodyMalformed, BodyBadCompany, BodyNoTxnIds, BodyEmptyTxnIds, BodyGood}

\* json.loads(body): ok is FALSE when the text is not JSON; otherwise the
\* decoded object, its keys in `keys`, companyId kept as the JSON token.
json_loads(body) ==
    CASE body = BodyBadCompany ->
            [ok |-> TRUE, keys |-> {"companyId", "txnIds"}, companyId |-> "abc", txnIds |-> <<1>>]
      [] body = BodyNoTxnIds ->
            [ok |-> TRUE, keys |-> {"companyId"}, companyId |-> "7", txnIds |-> <<>>]
      [] body = BodyEmptyTxnIds ->
            [ok |-> TRUE, keys |-> {"companyId", "txnIds"}, companyId |-> "7", txnIds |-> <<>>]
      [] body = BodyGood ->
            [ok |-> TRUE, keys |-> {"companyId", "txnIds"}, companyId |-> "7", txnIds |-> <<1, 2, 3>>]
      [] OTHER ->
            [ok |-> FALSE, keys |-> {}, companyId |-> "", txnIds |-> <<>>]

\* int(event.get("companyId", 0)): -1 stands for ValueError
company_id(event) ==
    IF "companyId" \notin event.keys THEN 0
    ELSE IF event.companyId = "7" THEN 7
    ELSE -1

\* event.get("txnIds", [])
txn_ids(event) == IF "txnIds" \in event.keys THEN event.txnIds ELSE <<>>

\* json.loads, int(...) and .get(...) of lines 109-111 all succeed
Parses(body) == json_loads(body).ok /\ company_id(json_loads(body)) # -1

\* ----------------------------------------------------------------- ledger

\* A record of the backend, a JSON object: the field names are the keys.
\* The backend sends id, amount, date and categoryName.
LedgerRecord(i) ==
    [id |-> i, amount |-> IntValue(IF i = 2 THEN -50000 ELSE 10 * i), date |-> "2026-02-25",
     categoryName |-> IF i = 2 THEN "" ELSE "Office Rent"]

\* a date string that is no date
BadDate == "31/02/2026"

\* A record of the backend whose amount is a string that is no number and
\* whose date is no date.
UnparsableRecord ==
    [id |-> 4, amount |-> StrValue("12,50"), date |-> BadDate, categoryName |-> "Office Rent"]

\* A record already in the shape the scoring reads (the shape POST /anomalies
\* documents).
ScoredRecord(i) ==
    [id |-> i, amount |-> IntValue(50000), day_of_week |-> 2, hour |-> 12, category_id |-> 5]

\* The outcomes of requests.post(...): a timeout or a connection error
\* raises; an HTTP response carries a status and a body that decodes as JSON
\* to a list or does not decode (a non-200 response carries an error payload,
\* here one object).
LedgerResponses ==
    { [kind |-> "timeout", status |-> 0, decodes |-> FALSE, json |-> <<>>],
      [kind |-> "connection_error", status |-> 0, decodes |-> FALSE, json |-> <<>>],
      [kind |-> "http", status |-> 500, decodes |-> TRUE, json |-> <<LedgerRecord(0)>>],
      [kind |-> "http", status |-> 200, decodes |-> FALSE, json |-> <<>>],
      [kind |-> "http", status |-> 200, decodes |-> TRUE, json |-> <<>>],
      [kind |-> "http", status |-> 200, decodes |-> TRUE,
       json |-> <<UnparsableRecord, ScoredRecord(1)>>],
      [kind |-> "http", status |-> 200, decodes |-> TRUE,
       json |-> <<LedgerRecord(1), LedgerRecord(2), LedgerRecord(3)>>] }

\* Mutant: the status of the response is not looked at.
StatusOkAny(resp) == TRUE

\* the status test of fetch_transactions
StatusOk(resp) == resp.status = 200

\* The try body of fetch_transactions: the exception it raises ("" for none)
\* and the value it returns.  requests.post raises on a timeout or a
\* connection error, resp.json() on a body that is not JSON.
FetchTry(resp) ==
    IF resp.kind # "http" THEN [exc |-> "RequestException", value |-> <<>>]
    ELSE IF StatusOk(resp)
         THEN IF resp.decodes THEN [exc |-> "", value |-> resp.json]
              ELSE [exc |-> "JSONDecodeError", value |-> <<>>]
         ELSE [exc |-> "", value |-> <<>>]

\* Mutant: only the exceptions of requests are caught.
FetchCatchesRequestOnly(exc) == exc = "RequestException"

\* except Exception
FetchCatches(exc) == TRUE

\* A call of fetch_transactions as its caller sees it: whether an exception
\* leaves it, and the value it returns.
FetchOutcome(resp) ==
    LET t == FetchTry(resp) IN
    IF t.exc = "" THEN [raised |-> FALSE, value |-> t.value]
    ELSE IF FetchCatches(t.exc) THEN [raised |-> FALSE, value |-> <<>>]
    ELSE [raised |-> TRUE, value |-> <<>>]

\* fetch_transactions(company_id, txn_ids): the decoded records of a 200
\* response; [] for every other response and for every exception.
fetch_transactions(resp) == FetchOutcome(resp).value

\* ----------------------------------------------------------------- oracle

\* The trained model on disk, as the scoring sees it: whether
\* models/anomaly_detector.joblib exists, whether loading it or scoring with
\* it raises,
\* and the ids the model predicts as outliers (-1).
Oracles ==
    { [present |-> FALSE, raises |-> FALSE, outliers |-> {}],
      [present |-> TRUE, raises |-> FALSE, outliers |-> {}],
      [present |-> TRUE, raises |-> FALSE, outliers |-> {2}],
      [present |-> TRUE, raises |-> TRUE, outliers |-> {}] }

\* dict.get(key, default) on a record
Field(t, key, default) == IF key \in DOMAIN t THEN t[key] ELSE default

Abs(n) == IF n < 0 THEN -n ELSE n

\* abs(value) raises TypeError for a string
AbsRaises(value) == IntRaises(value)

\* the list comprehension of extract_features raises: abs() refuses the
\* amount of a record
ExtractRaises(transactions) ==
    \E i \in 1..Len(transactions) :
        AbsRaises(Field(transactions[i], "amount", IntValue(0)))

\* extract_features(transactions): one feature vector per record, in the
\* order of the records; an amount of -1 stands for the TypeError of abs()
extract_features(transactions) ==
    [i \in 1..Len(transactions) |->
        [amount      |-> IF AbsRaises(Field(transactions[i], "amount", IntValue(0))) THEN -1
                         ELSE Abs(Field(transactions[i], "amount", IntValue(0)).int),
         day_of_week |-> Field(transactions[i], "day_of_week", 0),
         hour        |-> Field(transactions[i], "hour", 12),
         category_id |-> Field(transactions[i], "category_id", -1)]]

\* Mutant: the comparison is pred == 1, which keeps the inliers.
oracle_detect_anomalies_inliers(new_transactions, oracle) ==
    IF ~oracle.present THEN [raised |-> FALSE, value |-> <<>>]
    ELSE IF oracle.raises \/ ExtractRaises(new_transactions)
    THEN [raised |-> TRUE, value |-> <<>>]
    ELSE [raised |-> FALSE,
          value |-> SelectSeq(new_transactions, LAMBDA txn : txn.id \notin oracle.outliers)]

\* anomaly_detector.detect_anomalies(new_transactions)
oracle_detect_anomalies(new_transactions, oracle) ==
    IF ~oracle.present THEN [raised |-> FALSE, value |-> <<>>]
    ELSE IF oracle.raises \/ ExtractRaises(new_transactions)
    THEN [raised |-> TRUE, value |-> <<>>]
    ELSE [raised |-> FALSE,
          value |-> SelectSeq(new_transactions, LAMBDA txn : txn.id \in oracle.outliers)]

\* the names anomaly_detector.py defines
AnomalyDetectorNames == {"extract_features", "train_anomaly_model", "detect_anomalies"}

\* the name the worker imports from anomaly_detector
ImportedName == "detect"

\* Whether the scoring inside the worker's detect_anomalies raises: the import
\* of a name the module does not define raises ImportError; otherwise the
\* oracle may raise.
ScoringRaises(transactions, oracle) ==
    \/ ImportedName \notin AnomalyDetectorNames
    \/ oracle_detect_anomalies(transactions, oracle).raised

\* The feature arrays the trained model is asked to score during one call of
\* the worker's detect_anomalies: none when the import fails or no model is
\* on disk, else the features of the records.
OracleInvocations(transactions, oracle) ==
    IF ImportedName \notin AnomalyDetectorNames THEN <<>>
    ELSE IF ~oracle.present THEN <<>>
    ELSE <<extract_features(transactions)>>

\* Mutant: on an exception the records are returned as they came.
detect_anomalies_returns_input(transactions, oracle) ==
    IF ScoringRaises(transactions, oracle) THEN transactions
    ELSE oracle_detect_anomalies(transactions, oracle).value

\* rabbitmq_consumer.detect_anomalies(transactions): every exception of the
\* import or of the scoring is caught and [] returned.
detect_anomalies(transactions, oracle) ==
    IF ScoringRaises(transactions, oracle) THEN <<>>
    ELSE oracle_detect_anomalies(transactions, oracle).value

\* --------------------------------------------------------------- topology

\* What the broker has declared: exchanges, queues, queue arguments
\* <<queue, key, value>> and bindings <<queue, exchange, routing key>>.
NoTopology == [exchanges |-> {}, queues |-> {}, args |-> {}, bindings |-> {}]

\* Mutant: the dead-letter queue is bound with its own name as routing key.
setup_topology_own_key(t) ==
    [exchanges |-> t.exchanges \cup {DLX, EXCHANGE},
     queues    |-> t.queues \cup {DLQ, INPUT_QUEUE, RESULT_QUEUE},
     args      |-> t.args \cup {<<INPUT_QUEUE, "x-dead-letter-exchange", DLX>>,
                                <<INPUT_QUEUE, "x-dead-letter-routing-key", INPUT_QUEUE>>},
     bindings  |-> t.bindings \cup {<<DLQ, DLX, DLQ>>,
                                    <<INPUT_QUEUE, EXCHANGE, "transactions.new">>,
                                    <<RESULT_QUEUE, EXCHANGE, "anomalies.detected">>}]

\* The declarations of setup_topology, in the order it makes them.
Declarations ==
    << [op |-> "exchange_declare", exchange |-> DLX],
       [op |-> "queue_declare", queue |-> DLQ, arguments |-> {}],
       [op |-> "queue_bind", queue |-> DLQ, exchange |-> DLX, routing_key |-> INPUT_QUEUE],
       [op |-> "exchange_declare", exchange |-> EXCHANGE],
       [op |-> "queue_declare", queue |-> INPUT_QUEUE,
        arguments |-> {<<"x-dead-letter-exchange", DLX>>,
                       <<"x-dead-letter-routing-key", INPUT_QUEUE>>}],
       [op |-> "queue_bind", queue |-> INPUT_QUEUE, exchange |-> EXCHANGE,
        routing_key |-> "transactions.new"],
       [op |-> "queue_declare", queue |-> RESULT_QUEUE, arguments |-> {}],
       [op |-> "queue_bind", queue |-> RESULT_QUEUE, exchange |-> EXCHANGE,
        routing_key |-> "anomalies.detected"] >>

\* the arguments a queue was declared with
QueueArguments(t, queue) == {<<a[2], a[3]>> : a \in {x \in t.args : x[1] = queue}}

\* Whether the broker accepts a declaration: a queue that exists can only be
\* declared again with the arguments it has (otherwise 406 PRECONDITION_FAILED
\* closes the channel), a binding needs its queue and its exchange.
Accepted(t, d) ==
    CASE d.op = "queue_declare" ->
            d.queue \in t.queues => QueueArguments(t, d.queue) = d.arguments
      [] d.op = "queue_bind" -> d.queue \in t.queues /\ d.exchange \in t.exchanges
      [] OTHER -> TRUE

\* One accepted declaration at the broker: it adds what is missing and leaves
\* what exists.
Declare(t, d) ==
    CASE d.op = "exchange_declare" -> [t EXCEPT !.exchanges = @ \cup {d.exchange}]
      [] d.op = "queue_declare" ->
            [t EXCEPT !.queues = @ \cup {d.queue},
                      !.args = @ \cup {<<d.queue, a[1], a[2]>> : a \in d.arguments}]
      [] OTHER -> [t EXCEPT !.bindings = @ \cup {<<d.queue, d.exchange, d.routing_key>>}]

\* The declarations made one after the other; the first one the broker
\* refuses raises and the rest is not made.
RECURSIVE DeclareAll(_, _)
DeclareAll(t, ds) ==
    IF ds = <<>> THEN [ok |-> TRUE, topology |-> t]
    ELSE IF ~Accepted(t, Head(ds)) THEN [ok |-> FALSE, topology |-> t]
    ELSE DeclareAll(Declare(t, Head(ds)), Tail(ds))

\* Mutant: the result queue is declared with a name the broker makes up, a
\* new one at every declaration.
setup_topology_server_named(t) ==
    [DeclareAll(t, Declarations).topology EXCEPT
        !.queues = @ \cup {IF "amq.gen-1" \in t.queues THEN "amq.gen-2" ELSE "amq.gen-1"}]

\* setup_topology(channel), the broker after its declarations
setup_topology(t) == DeclareAll(t, Declarations).topology

\* Mutant: basic_qos is not called; the bound stays 0, which is no bound.
PrefetchCountUnset == 1 - 1

\* channel.basic_qos(prefetch_count=1)
PrefetchCount == 1

\* The queues a message published to `exchange` with `routing_key` reaches.
\* The default exchange "" routes to the queue named by the key.
Route(t, exchange, routing_key) ==
    IF exchange = "" THEN {routing_key} \cap t.queues
    ELSE IF exchange \notin t.exchanges THEN {}
    ELSE {b[1] : b \in {x \in t.bindings : x[2] = exchange /\ x[3] = routing_key}}

\* basic_publish as the broker sees it: the message joins every queue routed to.
Publish(t, q, exchange, routing_key, msg) ==
    [n \in QueueNames |->
        IF n \in Route(t, exchange, routing_key) THEN Append(q[n], msg) ELSE q[n]]

QueueArg(t, queue, key) ==
    IF \E a \in t.args : a[1] = queue /\ a[2] = key
    THEN (CHOOSE a \in t.args : a[1] = queue /\ a[2] = key)[3]
    ELSE ""

\* Mutant: the input queue has no dead-letter exchange; a rejected message is
\* dropped.
DeadLetterDrops(t, q, queue, msg) == q

\* A message of `queue` rejected with requeue=False: the broker republishes it,
\* headers kept, to the queue's dead-letter exchange with the queue's
\* dead-letter routing key; without a dead-letter exchange it is dropped.
DeadLetter(t, q, queue, msg) ==
    IF QueueArg(t, queue, "x-dead-letter-exchange") = "" THEN q
    ELSE Publish(t, q, QueueArg(t, queue, "x-dead-letter-exchange"),
                 QueueArg(t, queue, "x-dead-letter-routing-key"), msg)

\* ---------------------------------------------------------------- handler

\* What can go wrong on the channel during one call of on_message: nothing;
\* publish_results raises with the channel still usable; or the connection is
\* lost at a channel operation, which then raises like every later one.
Faults == {"none", "publish_raises", "publish_lost", "ack_lost", "nack_lost", "republish_lost"}

ChannelFaults == {"publish_lost", "ack_lost", "nack_lost", "republish_lost"}

\* publish_results(channel, company_id, anomalies): the payload (detectedAt,
\* the clock's reading, is left out)
ResultPayload(cid, anomalies) == [companyId |-> cid, anomalies |-> anomalies]

\* Mutant: the test is "txn_ids is None", which the default [] never meets.
EmptyTxnIdsIsNone(ids) == FALSE

\* if not txn_ids: acknowledge and return
EmptyTxnIds(ids) == ids = <<>>

\* Mutant: the delivery is acknowledged on receipt, before anything else.
AckStepOnReceipt(ops, result, fault) ==
    IF fault = "ack_lost"
    THEN [ops |-> <<"basic_ack">> \o ops, acked |-> FALSE, result |-> result,
          raised |-> TRUE, dead |-> TRUE]
    ELSE [ops |-> <<"basic_ack">> \o ops, acked |-> TRUE, result |-> result,
          raised |-> FALSE, dead |-> FALSE]

\* channel.basic_ack(delivery_tag) and what follows it in the try block
AckStep(ops, result, fault) ==
    IF fault = "ack_lost"
    THEN [ops |-> Append(ops, "basic_ack"), acked |-> FALSE, result |-> result,
          raised |-> TRUE, dead |-> TRUE]
    ELSE [ops |-> Append(ops, "basic_ack"), acked |-> TRUE, result |-> result,
          raised |-> FALSE, dead |-> FALSE]

\* the try block of on_message
TryBlock(m, resp, oracle, fault) ==
    LET event == json_loads(m.body) IN
    IF ~Parses(m.body)
    THEN [ops |-> <<>>, acked |-> FALSE, result |-> <<>>, raised |-> TRUE, dead |-> FALSE]
    ELSE IF EmptyTxnIds(txn_ids(event))
    THEN AckStep(<<>>, <<>>, fault)
    ELSE IF FetchOutcome(resp).raised
    THEN [ops |-> <<"fetch">>, acked |-> FALSE, result |-> <<>>, raised |-> TRUE, dead |-> FALSE]
    ELSE LET transactions == fetch_transactions(resp) IN
         IF transactions # <<>>
         THEN LET anomalies == detect_anomalies(transactions, oracle)
                  ops == <<"fetch", "detect", "publish_results">>
              IN  IF fault = "publish_raises"
                  THEN [ops |-> ops, acked |-> FALSE, result |-> <<>>,
                        raised |-> TRUE, dead |-> FALSE]
                  ELSE IF fault = "publish_lost"
                  THEN [ops |-> ops, acked |-> FALSE, result |-> <<>>,
                        raised |-> TRUE, dead |-> TRUE]
                  ELSE AckStep(ops, <<ResultPayload(company_id(event), anomalies)>>, fault)
         ELSE AckStep(<<"fetch">>, <<>>, fault)

\* Mutant: the retry is never refused.
RetryAllowedAlways(rc) == TRUE

\* Mutant: the comparison is <= instead of <.
RetryAllowedInclusive(rc) == rc <= MAX_RETRIES

\* if retry_count < MAX_RETRIES
RetryAllowed(rc) == rc < MAX_RETRIES

\* Mutant: the counter is republished as it came.
RetryHeadersSame(rc) == {<<"x-retry-count", IntValue(rc)>>}

\* headers = {"x-retry-count": retry_count + 1}
RetryHeaders(rc) == {<<"x-retry-count", IntValue(rc + 1)>>}

\* Mutant: the copy carries the decoded event encoded again; a body that did
\* not decode becomes an empty object.
RetryCopyReencoded(m) ==
    [id |-> m.id, body |-> IF json_loads(m.body).ok THEN m.body ELSE "{}",
     hdr |-> RetryHeaders(retry_count(m.hdr)), mode |-> 2]

\* the copy republished for a retry
RetryCopy(m) ==
    [id |-> m.id, body |-> m.body, hdr |-> RetryHeaders(retry_count(m.hdr)), mode |-> 2]

\* the except block of on_message, entered with the try block's outcome t
ExceptBlock(m, t, fault) ==
    LET nackOps == Append(t.ops, "basic_nack")
        nackLost == t.dead \/ fault = "nack_lost"
    IN  IF RetryAllowed(retry_count(m.hdr))
        THEN IF nackLost
             THEN [ops |-> nackOps, settle |-> "none", result |-> t.result, retry |-> <<>>,
                   caught |-> TRUE, escaped |-> TRUE]
             ELSE IF fault = "republish_lost"
             THEN [ops |-> Append(nackOps, "republish"), settle |-> "nack",
                   result |-> t.result, retry |-> <<>>, caught |-> TRUE, escaped |-> TRUE]
             ELSE [ops |-> Append(nackOps, "republish"), settle |-> "nack",
                   result |-> t.result, retry |-> <<RetryCopy(m)>>,
                   caught |-> TRUE, escaped |-> FALSE]
        ELSE IF nackLost
             THEN [ops |-> nackOps, settle |-> "none", result |-> t.result, retry |-> <<>>,
                   caught |-> TRUE, escaped |-> TRUE]
             ELSE [ops |-> nackOps, settle |-> "nack", result |-> t.result, retry |-> <<>>,
                   caught |-> TRUE, escaped |-> FALSE]

\* on_message(channel, method, properties, body): the channel operations it
\* issues in order (ops), how the delivery was settled, the result and the
\* retry copy the broker received, whether the except block ran and whether
\* an exception left the handler.  The counter is read before the try block:
\* an exception there leaves the handler with nothing issued.
on_message(m, resp, oracle, fault) ==
    LET t == TryBlock(m, resp, oracle, fault) IN
    IF RetryCountRaises(m.hdr)
    THEN [ops |-> <<>>, settle |-> "none", result |-> <<>>, retry |-> <<>>,
          caught |-> FALSE, escaped |-> TRUE]
    ELSE IF t.raised
    THEN ExceptBlock(m, t, fault)
    ELSE [ops |-> t.ops, settle |-> "ack", result |-> t.result, retry |-> <<>>,
          caught |-> FALSE, escaped |-> FALSE]

\* The exception classes that leave on_message: ValueError when the counter
\* cannot be read; when a channel operation fails pika raises a connection
\* error (StreamLostError, ConnectionClosed) or a channel error
\* (ChannelWrongStateError), whichever it notices first.
EscapedExceptions(m) ==
    IF RetryCountRaises(m.hdr) THEN {"ValueError"}
    ELSE {"AMQPConnectionError", "AMQPChannelError"}

\* Mutant: the loop has no clause for other exceptions, which then end it.
LoopAfterConnectionErrorOnly(exc) ==
    IF exc = "AMQPConnectionError" THEN "connect" ELSE "stopped"

\* The except clauses of the loop of start_consumer: where the loop is after
\* an exception ended an iteration.  AMQPConnectionError and every other
\* Exception sleep 5 seconds and go round again; KeyboardInterrupt breaks.
LoopAfter(exc) ==
    CASE exc = "AMQPConnectionError" -> "connect"
      [] exc = "KeyboardInterrupt" -> "stopped"
      [] OTHER -> "connect"

\* ------------------------------------------------------------- classifier

CSV_PATH == "transactions_labeled.csv"

\* the pipeline objects the model follows: the one loaded at import and the
\* ones train_model builds
MaxModels == 2

\* the clients that post /train, and the client that posts /categorize,
\* /categorize-detail and /anomalies; the server handles each request in a
\* thread of its own
TrainClients == {"t1", "t2"}

ReadClients == {"r1"}

Clients == TrainClients \cup ReadClients

\* None as the value of _pipeline['model'] and of a local variable; every
\* other value is the index of a pipeline object in `objects`
None == 0

\* The csv_path values of POST /train: the default, another file of labeled
\* rows, a path without a file, a file pandas cannot read, a file without the
\* two columns, a file with fewer than 20 valid rows.
CsvPaths ==
    {CSV_PATH, "custom.csv", "missing.csv", "unreadable.csv", "nocolumns.csv", "short.csv"}

\* The checks of train_model before it fits: the message of the error dict
\* it returns, "" when the CSV passes.
CsvError(csv_path) ==
    CASE csv_path = "missing.csv" -> "Training CSV not found"
      [] csv_path = "unreadable.csv" -> "Cannot read CSV"
      [] csv_path = "nocolumns.csv" -> "CSV must contain columns: description, category"
      [] csv_path = "short.csv" -> "need at least 20"
      [] OTHER -> ""

\* Mutant: the handle is updated as soon as the pipeline object exists.
TrainStepsAssignEarly == <<"check", "construct", "assign", "fit", "dump">>

\* Mutant: the CSV is checked after the model was saved and loaded.
TrainStepsCheckLast == <<"construct", "fit", "dump", "assign", "check">>

\* The statements of train_model in the order it runs them: the checks of
\* the CSV, Pipeline([...]), pipeline.fit (and the evaluation on the test
\* split), joblib.dump, _pipeline['model'] = pipeline.
TrainSteps == <<"check", "construct", "fit", "dump", "assign">>

\* _load_model_from_disk(), run at import: the object loaded from the file,
\* None when there is no file
_load_model_from_disk(file) == IF file # <<>> THEN 1 ELSE None

\* a client of /train for which the server is handling nothing: pc is the
\* place in TrainSteps of a running call, 0 when none runs
NoTrain == [route |-> "", pc |-> 0, csv_path |-> "", pipeline |-> None, writes |-> {}, status |-> ""]

\* a client of the reading routes for which the server is handling nothing
NoRead == [route |-> "", pc |-> "idle"]

\* the routes that read the classifier
ReadRoutes == {"/categorize", "/categorize-detail"}

\* The return of predict_category and the category of predict_with_confidence
\* with `model` as the local variable: 'Uncategorized' for None and when the
\* prediction raises (a pipeline that is not fitted raises NotFittedError),
\* else what the fitted pipeline predicts.
predict_category(model, objs) ==
    IF model = None THEN "Uncategorized"
    ELSE IF ~objs[model].fitted THEN "Uncategorized"
    ELSE "Office Rent"

\* the request bodies of POST /anomalies
AnomalyBatches ==
    { <<>>,
      <<ScoredRecord(1), ScoredRecord(2), ScoredRecord(3)>>,
      <<UnparsableRecord, ScoredRecord(1)>> }

\* the anomaly models that can be on disk when POST /anomalies is served
AppOracles == Oracles \cup {[present |-> TRUE, raises |-> FALSE, outliers |-> {1, 3}]}

\* the route /anomalies: 200 with the flagged records, 500 when
\* detect_anomalies raises
anomalies(transactions, oracle) ==
    LET flagged == oracle_detect_anomalies(transactions, oracle) IN
    IF flagged.raised THEN [code |-> 500, anomalies |-> <<>>]
    ELSE [code |-> 200, anomalies |-> flagged.value]

\* ------------------------------------------------------------------ state

VARIABLES
    topology,   \* what the broker has declared
    queue,      \* queue name -> the messages ready in it, oldest first
    unacked,    \* worker -> the deliveries it holds unacknowledged
    prefetch,   \* worker -> its channel's prefetch bound (0: none set)
    pc,         \* worker -> where start_consumer is
    published,  \* event id -> the retry counter the producer sent the event with
                \* (a sequence: the events sent so far, in order)
    faults,     \* connection failures so far
    handled,    \* event id -> calls of on_message on a delivery of the event
    aborted,    \* event id -> those calls that an exception left
    handlers,   \* event id -> the workers that on_message was called in for the event
    ackedIds,   \* the events with a delivery acknowledged at the broker
    last,       \* <<the call of on_message the latest step made: inputs and outcome>>,
                \* <<>> when the latest step was another one
    _pipeline,  \* category_classifier._pipeline: 'model' -> a pipeline object or None
    model_file, \* the file at MODEL_PATH: <<>> when there is none, else <<the
                \* pipeline dumped into it>>
    objects,    \* the pipeline objects of the server process, by reference
    threads     \* client -> the request the server is handling for it

vars == <<topology, queue, unacked, prefetch, pc, published, faults,
          handled, aborted, handlers, ackedIds, last,
          _pipeline, model_file, objects, threads>>

\* the state of the worker processes and their broker
workerVars == <<topology, queue, unacked, prefetch, pc, published, faults,
                handled, aborted, handlers, ackedIds, last>>

\* the state of the Flask server
appVars == <<_pipeline, model_file, objects, threads>>

\* the headers an upstream producer sends: none, headers without the counter,
\* an explicit zero, a counter of its own, a counter that is not a number
ProducerHeaders ==
    { NoHeaders,
      {<<"x-source", StrValue("ledger")>>},
      {<<"x-retry-count", IntValue(0)>>},
      {<<"x-retry-count", IntValue(MaxProducerCount)>>},
      {<<"x-retry-count", StrValue("abc")>>} }

\* calls of on_message per event the model follows
MaxHandled == MAX_RETRIES + 2 + MaxFaults

Init ==
    /\ topology = NoTopology
    /\ queue = [n \in QueueNames |-> <<>>]
    /\ unacked = [w \in Workers |-> <<>>]
    /\ prefetch = [w \in Workers |-> 0]
    /\ pc = [w \in Workers |-> "connect"]
    /\ published = <<>>
    /\ faults = 0
    /\ handled = [e \in EventIds |-> 0]
    /\ aborted = [e \in EventIds |-> 0]
    /\ handlers = [e \in EventIds |-> {}]
    /\ ackedIds = {}
    /\ last = <<>>
    /\ _pipeline = [model |-> None]
    /\ model_file = <<>>
    /\ objects = <<>>
    /\ threads = [c \in Clients |-> IF c \in TrainClients THEN NoTrain ELSE NoRead]

\* ---------------------------------------------------------------- actions

\* The upstream producer publishes the next of `events` to the main exchange,
\* with one of `bodies` and one of `headers`.
Producer(events, bodies, headers) ==
    /\ Len(published) < Cardinality(events)
    /\ Route(topology, EXCHANGE, "transactions.new") # {}
    /\ \E body \in bodies, hdr \in headers :
          LET msg == [id |-> Len(published) + 1, body |-> body, hdr |-> hdr, mode |-> 2] IN
          /\ published' = Append(published, retry_count(hdr))
          /\ queue' = Publish(topology, queue, EXCHANGE, "transactions.new", msg)
    /\ last' = <<>>
    /\ UNCHANGED <<topology, unacked, prefetch, pc, faults, handled, aborted, handlers, ackedIds>>
    /\ UNCHANGED appVars

\* The producer sends one event, of any body and any headers.
ProducerPublish == Producer(SingleEvent, Bodies, ProducerHeaders)

\* The producer sends a burst: every event of the model, each a batch without
\* txnIds (which on_message acknowledges) or a body that does not parse, with
\* a counter of the producer's own (which on_message rejects for good).
ProducerBurst ==
    Producer(EventIds, {BodyEmptyTxnIds, BodyMalformed},
             {{<<"x-retry-count", IntValue(MaxProducerCount)>>}})

\* start_consumer: pika.BlockingConnection(parameters) and connection.channel() succeed
ConnectOk(w) ==
    /\ pc[w] = "connect"
    /\ pc' = [pc EXCEPT ![w] = "setup"]
    /\ prefetch' = [prefetch EXCEPT ![w] = 0]
    /\ last' = <<>>
    /\ UNCHANGED <<topology, queue, unacked, published, faults, handled, aborted, handlers, ackedIds>>
    /\ UNCHANGED appVars

\* start_consumer: the connection attempt raises AMQPConnectionError; the loop
\* sleeps 5 seconds and comes back to connect
ConnectFail(w) ==
    /\ pc[w] = "connect"
    /\ faults < MaxFaults
    /\ faults' = faults + 1
    /\ pc' = [pc EXCEPT ![w] = LoopAfter("AMQPConnectionError")]
    /\ last' = <<>>
    /\ UNCHANGED <<topology, queue, unacked, prefetch, published, handled, aborted, handlers, ackedIds>>
    /\ UNCHANGED appVars

\* Mutant: the prefetch bound is set after consumption has started.
SetupAndConsumeQosLast(w) ==
    /\ pc[w] = "setup"
    /\ DeclareAll(topology, Declarations).ok
    /\ topology' = DeclareAll(topology, Declarations).topology
    /\ pc' = [pc EXCEPT ![w] = "consuming"]
    /\ last' = <<>>
    /\ UNCHANGED <<queue, unacked, prefetch, published, faults, handled, aborted, handlers, ackedIds>>
    /\ UNCHANGED appVars

\* start_consumer: setup_topology(channel), basic_consume, start_consuming
SetupAndConsume(w) ==
    /\ pc[w] = "setup"
    /\ DeclareAll(topology, Declarations).ok
    /\ topology' = setup_topology(topology)
    /\ prefetch' = [prefetch EXCEPT ![w] = PrefetchCount]
    /\ pc' = [pc EXCEPT ![w] = "consuming"]
    /\ last' = <<>>
    /\ UNCHANGED <<queue, unacked, published, faults, handled, aborted, handlers, ackedIds>>
    /\ UNCHANGED appVars

\* The broker hands the oldest ready message of the input queue to a consumer
\* that is below its prefetch bound.
Deliver(w) ==
    /\ pc[w] = "consuming"
    /\ queue[INPUT_QUEUE] # <<>>
    /\ prefetch[w] = 0 \/ Len(unacked[w]) < prefetch[w]
    /\ unacked' = [unacked EXCEPT ![w] = Append(@, Head(queue[INPUT_QUEUE]))]
    /\ queue' = [queue EXCEPT ![INPUT_QUEUE] = Tail(@)]
    /\ last' = <<>>
    /\ UNCHANGED <<topology, prefetch, pc, published, faults, handled, aborted, handlers, ackedIds>>
    /\ UNCHANGED appVars

\* The broker puts a closed connection's unsettled deliveries back at the
\* front of the input queue.
Requeue(q, msgs) == [q EXCEPT ![INPUT_QUEUE] = msgs \o @]

\* The connection of a consuming worker drops outside a call of on_message:
\* start_consuming raises, the loop sleeps 5 seconds and connects again.
ConnectionLost(w) ==
    /\ pc[w] = "consuming"
    /\ faults < MaxFaults
    /\ faults' = faults + 1
    /\ queue' = Requeue(queue, unacked[w])
    /\ unacked' = [unacked EXCEPT ![w] = <<>>]
    /\ pc' = [pc EXCEPT ![w] = LoopAfter("AMQPConnectionError")]
    /\ last' = <<>>
    /\ UNCHANGED <<topology, prefetch, published, handled, aborted, handlers, ackedIds>>
    /\ UNCHANGED appVars

\* The process is interrupted from outside (Ctrl-C, a signal): the loop
\* breaks, the process exits and the broker requeues what it had not settled.
KeyboardInterrupt(w) ==
    /\ pc[w] # "stopped"
    /\ pc' = [pc EXCEPT ![w] = LoopAfter("KeyboardInterrupt")]
    /\ queue' = Requeue(queue, unacked[w])
    /\ unacked' = [unacked EXCEPT ![w] = <<>>]
    /\ last' = <<>>
    /\ UNCHANGED <<topology, prefetch, published, faults, handled, aborted, handlers, ackedIds>>
    /\ UNCHANGED appVars

\* The queues after the broker has received what one call of on_message sent.
AfterHandler(t, q, m, out) ==
    LET q1 == IF out.result # <<>>
              THEN Publish(t, q, EXCHANGE, "anomalies.detected", out.result[1]) ELSE q
        q2 == IF out.settle = "nack" THEN DeadLetter(t, q1, INPUT_QUEUE, m) ELSE q1
    IN  IF out.retry # <<>> THEN Publish(t, q2, "", INPUT_QUEUE, out.retry[1]) ELSE q2

\* What a call of on_message does not consult is absent.
NoResponse == [kind |-> "none", status |-> 0, decodes |-> FALSE, json |-> <<>>]

NoOracle == [present |-> FALSE, raises |-> FALSE, outliers |-> {-1}]

Consulted(out, op) == \E i \in 1..Len(out.ops) : out.ops[i] = op

\* the ledger's possible answers to a call for m: there is one only when the
\* call gets as far as fetch_transactions
ResponsesFor(m) ==
    IF ~RetryCountRaises(m.hdr) /\ Parses(m.body) /\ ~EmptyTxnIds(txn_ids(json_loads(m.body)))
    THEN LedgerResponses ELSE {NoResponse}

\* the models that can be on disk when the call scores: one matters only when
\* the fetch returned records
OraclesFor(resp) ==
    IF resp.kind = "http" /\ ~FetchOutcome(resp).raised /\ fetch_transactions(resp) # <<>>
    THEN Oracles ELSE {NoOracle}

\* whether the fault chosen for a call was met by it
FaultHappened(out, fault) ==
    \/ fault = "publish_raises" /\ Consulted(out, "publish_results") /\ out.result = <<>>
    \/ fault \in ChannelFaults /\ out.escaped /\ out.ops # <<>>

\* pika dispatches the worker's oldest delivery to on_message.  An exception
\* that leaves on_message ends start_consuming: the connection is gone, the
\* broker requeues what the worker had not settled, the loop sleeps 5 seconds
\* and connects again.
OnMessage(w) ==
    /\ pc[w] = "consuming"
    /\ unacked[w] # <<>>
    /\ LET m == Head(unacked[w]) IN
       /\ handled[m.id] < MaxHandled
       /\ \E resp \in ResponsesFor(m) : \E oracle \in OraclesFor(resp) : \E fault \in Faults :
          \E out \in {on_message(m, resp, oracle, fault)} :
          \E rest \in {IF out.settle = "none" THEN unacked[w] ELSE Tail(unacked[w])} :
          \E q \in {AfterHandler(topology, queue, m, out)} :
          \E exc \in (IF out.escaped THEN EscapedExceptions(m) ELSE {""}) :
             /\ fault = "none" \/ FaultHappened(out, fault)
             /\ out.escaped => faults < MaxFaults
             /\ faults' = IF out.escaped THEN faults + 1 ELSE faults
             /\ queue' = IF out.escaped THEN Requeue(q, rest) ELSE q
             /\ unacked' = [unacked EXCEPT ![w] = IF out.escaped THEN <<>> ELSE rest]
             /\ pc' = [pc EXCEPT ![w] = IF out.escaped THEN LoopAfter(exc) ELSE "consuming"]
             /\ handled' = [handled EXCEPT ![m.id] = @ + 1]
             /\ aborted' = [aborted EXCEPT ![m.id] = IF out.escaped THEN @ + 1 ELSE @]
             /\ handlers' = [handlers EXCEPT ![m.id] = @ \cup {w}]
             /\ ackedIds' = IF out.settle = "ack" THEN ackedIds \cup {m.id} ELSE ackedIds
             /\ last' = <<[worker |-> w, exc |-> exc, msg |-> m, rc |-> retry_count(m.hdr),
                           resp |-> IF Consulted(out, "fetch") THEN resp ELSE NoResponse,
                           oracle |-> IF Consulted(out, "detect") THEN oracle ELSE NoOracle,
                           fault |-> IF FaultHappened(out, fault) THEN fault ELSE "none",
                           out |-> out]>>
    /\ UNCHANGED <<topology, prefetch, published>>
    /\ UNCHANGED appVars

Next ==
    \/ ProducerPublish
    \/ \E w \in Workers : ConnectOk(w)
    \/ \E w \in Workers : ConnectFail(w)
    \/ \E w \in Workers : SetupAndConsume(w)
    \/ \E w \in Workers : Deliver(w)
    \/ \E w \in Workers : ConnectionLost(w)
    \/ \E w \in Workers : KeyboardInterrupt(w)
    \/ \E w \in Workers : OnMessage(w)

Spec == Init /\ [][Next]_vars

\* The producer sends one event of any body with an absent or zero counter.
ProducerZero ==
    Producer(SingleEvent, Bodies, {NoHeaders, {<<"x-retry-count", IntValue(0)>>}})

\* The steps of workers that nobody stops from outside, fed one event with an
\* absent or zero counter.
RunningNext ==
    \/ ProducerZero
    \/ \E w \in Workers : ConnectOk(w)
    \/ \E w \in Workers : ConnectFail(w)
    \/ \E w \in Workers : SetupAndConsume(w)
    \/ \E w \in Workers : Deliver(w)
    \/ \E w \in Workers : ConnectionLost(w)
    \/ \E w \in Workers : OnMessage(w)

\* The worker loops keep running and the broker keeps delivering: no worker
\* is stopped from outside, and every step of start_consumer, every delivery
\* and every dispatch that stays possible is eventually taken.
FairSpec ==
    /\ Init /\ [][RunningNext]_vars
    /\ \A w \in Workers :
          /\ WF_vars(ConnectOk(w))
          /\ WF_vars(SetupAndConsume(w))
          /\ WF_vars(Deliver(w))
          /\ WF_vars(OnMessage(w))

\* The same workers and broker under a burst of events.
BurstNext ==
    \/ ProducerBurst
    \/ \E w \in Workers : ConnectOk(w)
    \/ \E w \in Workers : ConnectFail(w)
    \/ \E w \in Workers : SetupAndConsume(w)
    \/ \E w \in Workers : Deliver(w)
    \/ \E w \in Workers : ConnectionLost(w)
    \/ \E w \in Workers : KeyboardInterrupt(w)
    \/ \E w \in Workers : OnMessage(w)

BurstSpec == Init /\ [][BurstNext]_vars

\* ------------------------------------------------------------ flask server

\* the train calls that have not built their pipeline object yet
Unbuilt == {c \in TrainClients : threads[c].pc > 0 /\ threads[c].pipeline = None}

\* POST /train with a csv_path: the route calls train_model(csv_path)
PostTrain(c, csv_path) ==
    /\ threads[c].pc = 0
    /\ Len(objects) + Cardinality(Unbuilt) < MaxModels
    /\ threads' = [threads EXCEPT ![c] =
                      [route |-> "/train", pc |-> 1, csv_path |-> csv_path,
                       pipeline |-> None, writes |-> {}, status |-> ""]]
    /\ UNCHANGED <<_pipeline, model_file, objects>>
    /\ UNCHANGED workerVars

\* the call of train_model for c is at the statement `name`
At(c, name) == threads[c].pc > 0 /\ TrainSteps[threads[c].pc] = name

\* the call after a statement that does not return: at the next statement,
\* or returned with status 'ok' after the last one
After(th) ==
    IF th.pc = Len(TrainSteps) THEN [th EXCEPT !.pc = 0, !.status = "ok"]
    ELSE [th EXCEPT !.pc = @ + 1]

\* train_model: the checks of the CSV; a CSV that fails one makes the call
\* return the error dict
TrainCheck(c) ==
    /\ At(c, "check")
    /\ threads' = [threads EXCEPT ![c] =
                      IF CsvError(@.csv_path) # "" THEN [@ EXCEPT !.pc = 0, !.status = "error"]
                      ELSE After(@)]
    /\ UNCHANGED <<_pipeline, model_file, objects>>
    /\ UNCHANGED workerVars

\* train_model: pipeline = Pipeline([...]), a new object, not fitted
TrainConstruct(c) ==
    /\ At(c, "construct")
    /\ objects' = Append(objects, [csv_path |-> threads[c].csv_path, fitted |-> FALSE])
    /\ threads' = [threads EXCEPT ![c] = After([@ EXCEPT !.pipeline = Len(objects) + 1])]
    /\ UNCHANGED <<_pipeline, model_file>>
    /\ UNCHANGED workerVars

\* train_model: pipeline.fit(X_train, y_train)
TrainFit(c) ==
    /\ At(c, "fit")
    /\ objects' = [objects EXCEPT ![threads[c].pipeline].fitted = TRUE]
    /\ threads' = [threads EXCEPT ![c] = After(@)]
    /\ UNCHANGED <<_pipeline, model_file>>
    /\ UNCHANGED workerVars

\* train_model: joblib.dump(pipeline, MODEL_PATH)
TrainDump(c) ==
    /\ At(c, "dump")
    /\ model_file' = <<objects[threads[c].pipeline]>>
    /\ threads' = [threads EXCEPT ![c] = After([@ EXCEPT !.writes = @ \cup {"model_file"}])]
    /\ UNCHANGED <<_pipeline, objects>>
    /\ UNCHANGED workerVars

\* train_model: _pipeline['model'] = pipeline
TrainAssign(c) ==
    /\ At(c, "assign")
    /\ _pipeline' = [_pipeline EXCEPT !.model = threads[c].pipeline]
    /\ threads' = [threads EXCEPT ![c] = After([@ EXCEPT !.writes = @ \cup {"_pipeline"}])]
    /\ UNCHANGED <<model_file, objects>>
    /\ UNCHANGED workerVars

\* POST /categorize or POST /categorize-detail: the route calls
\* predict_category or predict_with_confidence; `seen` is the handle when
\* the request arrives
PostCategorize(c, route) ==
    /\ threads[c].pc \in {"idle", "done"}
    /\ threads' = [threads EXCEPT ![c] =
                      [route |-> route, pc |-> "read", seen |-> _pipeline.model,
                       model |-> None, category |-> ""]]
    /\ UNCHANGED <<_pipeline, model_file, objects>>
    /\ UNCHANGED workerVars

\* predict_category, predict_with_confidence: model = _pipeline['model']
ReadHandle(c) ==
    /\ threads[c].pc = "read"
    /\ threads' = [threads EXCEPT ![c] = [@ EXCEPT !.pc = "predict", !.model = _pipeline.model]]
    /\ UNCHANGED <<_pipeline, model_file, objects>>
    /\ UNCHANGED workerVars

\* predict_category, predict_with_confidence: the test for None and the
\* prediction with the local variable
Predict(c) ==
    /\ threads[c].pc = "predict"
    /\ threads' = [threads EXCEPT ![c] =
                      [@ EXCEPT !.pc = "done", !.category = predict_category(threads[c].model, objects)]]
    /\ UNCHANGED <<_pipeline, model_file, objects>>
    /\ UNCHANGED workerVars

\* POST /anomalies with a list of records, served with an anomaly model on
\* disk or none
PostAnomalies(c) ==
    /\ threads[c].pc \in {"idle", "done"}
    /\ \E transactions \in AnomalyBatches, oracle \in AppOracles :
          threads' = [threads EXCEPT ![c] =
                         [route |-> "/anomalies", pc |-> "done", transactions |-> transactions,
                          oracle |-> oracle, response |-> anomalies(transactions, oracle)]]
    /\ UNCHANGED <<_pipeline, model_file, objects>>
    /\ UNCHANGED workerVars

\* The server after the import of category_classifier: started without a
\* model file, or with the file of an earlier training, which is loaded.
AppInit ==
    /\ topology = NoTopology
    /\ queue = [n \in QueueNames |-> <<>>]
    /\ unacked = [w \in Workers |-> <<>>]
    /\ prefetch = [w \in Workers |-> 0]
    /\ pc = [w \in Workers |-> "connect"]
    /\ published = <<>>
    /\ faults = 0
    /\ handled = [e \in EventIds |-> 0]
    /\ aborted = [e \in EventIds |-> 0]
    /\ handlers = [e \in EventIds |-> {}]
    /\ ackedIds = {}
    /\ last = <<>>
    /\ \E file \in {<<>>, <<[csv_path |-> CSV_PATH, fitted |-> TRUE]>>} :
          /\ model_file = file
          /\ objects = file
          /\ _pipeline = [model |-> _load_model_from_disk(file)]
    /\ threads = [c \in Clients |-> IF c \in TrainClients THEN NoTrain ELSE NoRead]

AppNext ==
    \/ \E c \in TrainClients, csv_path \in CsvPaths : PostTrain(c, csv_path)
    \/ \E c \in TrainClients : TrainCheck(c)
    \/ \E c \in TrainClients : TrainConstruct(c)
    \/ \E c \in TrainClients : TrainFit(c)
    \/ \E c \in TrainClients : TrainDump(c)
    \/ \E c \in TrainClients : TrainAssign(c)
    \/ \E c \in ReadClients, route \in ReadRoutes : PostCategorize(c, route)
    \/ \E c \in ReadClients : ReadHandle(c)
    \/ \E c \in ReadClients : Predict(c)
    \/ \E c \in ReadClients : PostAnomalies(c)

AppSpec == AppInit /\ [][AppNext]_vars

\* ------------------------------------------------------------- properties

\* the elements of a sequence
Range(seq) == {seq[i] : i \in DOMAIN seq}

\* the call of on_message the latest step made, if it made one
Calls == Range(last)

Issued(l, op) == Consulted(l.out, op)

\* the event of a call, as the try block decodes it
EventOf(l) == json_loads(l.msg.body)

\* a delivery of event e is ready in the input queue or held by a worker
Live(e) ==
    \/ \E m \in Range(queue[INPUT_QUEUE]) : m.id = e
    \/ \E w \in Workers : \E m \in Range(unacked[w]) : m.id = e

DeadLettered(e) == \E m \in Range(queue[DLQ]) : m.id = e

\* event e was sent with an absent or zero retry counter
ZeroBorn(e) == e <= Len(published) /\ published[e] = 0

\* event e has reached a terminal state: acknowledged or dead-lettered, with
\* no delivery of it left to hand out
Terminal(e) == ~Live(e) /\ (e \in ackedIds \/ DeadLettered(e))

\* the ledger yields zero records: timeout or network error, a non-success
\* status, a body that does not decode, or an empty list
ZeroRecords(resp) ==
    resp.kind # "http" \/ resp.status # 200 \/ ~resp.decodes \/ resp.json = <<>>

\* C1: a delivery whose body cannot be parsed (malformed JSON, or a companyId
\* that int() refuses) is acknowledged at once: basic_ack is the only
\* operation, it is not rejected, no retry copy is republished, and nothing
\* is fetched, scored or published.
C1_UnparsableAcked ==
    \A l \in Calls :
        ~Parses(l.msg.body) =>
            /\ l.out.ops = <<"basic_ack">>
            /\ l.out.settle = "ack"
            /\ ~l.out.caught
            /\ l.out.retry = <<>>
            /\ l.out.result = <<>>

\* C2: for a delivery whose event has empty or absent txnIds, whatever the
\* retry counter read from it, on_message issues basic_ack first, and issues no ledger
\* fetch, no scoring call, no result publish and no retry republish; unless
\* the connection is lost at the acknowledgment, basic_ack is the only
\* operation and the delivery is acknowledged.
C2_EmptyTxnIdsAcked ==
    \A l \in Calls :
        (/\ ~RetryCountRaises(l.msg.hdr)
         /\ Parses(l.msg.body) /\ txn_ids(EventOf(l)) = <<>>) =>
            /\ Len(l.out.ops) >= 1 /\ l.out.ops[1] = "basic_ack"
            /\ ~Issued(l, "fetch") /\ ~Issued(l, "detect")
            /\ ~Issued(l, "publish_results") /\ ~Issued(l, "republish")
            /\ l.out.result = <<>> /\ l.out.retry = <<>>
            /\ l.fault = "none" => (l.out.ops = <<"basic_ack">> /\ l.out.settle = "ack")

C2_Witness ==
    \E l \in Calls :
        /\ l.msg.body = BodyNoTxnIds
        /\ l.rc = MaxProducerCount
        /\ l.out.ops = <<"basic_ack">>
        /\ l.out.settle = "ack"
        /\ l.msg.id \in ackedIds

C4_DlqOnlyWhenExhausted ==
    /\ \A m \in Range(queue[DLQ]) : retry_count(m.hdr) >= MAX_RETRIES
    /\ \A i, j \in DOMAIN queue[DLQ] : queue[DLQ][i].id = queue[DLQ][j].id => i = j

\* C5: when processing fails with a counter of at least MAX_RETRIES, the
\* handler rejects the delivery without requeue as its last operation and
\* republishes nothing; once the broker has the reject, the declared
\* dead-letter exchange, routing key and binding put the message in the
\* dead-letter queue, and no delivery of it is left on the input queue or
\* with a worker.
C5_ExhaustedDeadLettered ==
    \A l \in Calls :
        (l.out.caught /\ l.rc >= MAX_RETRIES) =>
            /\ l.out.ops[Len(l.out.ops)] = "basic_nack"
            /\ ~Issued(l, "republish")
            /\ l.out.retry = <<>>
            /\ l.out.settle = "nack" =>
                  /\ queue[DLQ] # <<>>
                  /\ queue[DLQ][Len(queue[DLQ])] = l.msg
                  /\ ~Live(l.msg.id)

C5_Witness ==
    \E l \in Calls :
        /\ l.out.caught
        /\ l.rc = MAX_RETRIES
        /\ l.out.settle = "nack"
        /\ handled[l.msg.id] = MAX_RETRIES + 1
        /\ l.msg \in Range(queue[DLQ])
        /\ ~Live(l.msg.id)

\* C6 as stated, its bound: an event sent with an absent or zero counter is
\* handed to on_message at most MAX_RETRIES + 1 times, channel failures
\* included.
C6_AtMostFourHandlings ==
    \A e \in EventIds : ZeroBorn(e) => handled[e] <= MAX_RETRIES + 1

\* C6 amended: an event sent with an absent or zero counter is handed to
\* on_message at most MAX_RETRIES + 1 times, not counting the calls that a
\* lost connection made an exception leave (the broker hands such a delivery
\* out again with the counter it had); and once connections stop failing the
\* event reaches a terminal state, acknowledged or dead-lettered (the workers
\* keep running: none is stopped from outside).
C6_TerminatesWithBoundedHandlings ==
    /\ [](\A e \in SingleEvent : ZeroBorn(e) => handled[e] - aborted[e] <= MAX_RETRIES + 1)
    /\ \A e \in SingleEvent : ZeroBorn(e) ~> Terminal(e)

C6_Witness ==
    \E e \in EventIds :
        /\ ZeroBorn(e)
        /\ handled[e] = MAX_RETRIES + 2
        /\ aborted[e] = 1
        /\ Terminal(e)

\* C7: every message on the input queue or held by a worker that descends
\* from an event sent with an absent or zero counter carries a counter in
\* 0..MAX_RETRIES, and on_message never republishes a counter above
\* MAX_RETRIES.
C7_CounterInRange ==
    /\ \A m \in Range(queue[INPUT_QUEUE]) \cup UNION {Range(unacked[w]) : w \in Workers} :
          ZeroBorn(m.id) => retry_count(m.hdr) \in 0..MAX_RETRIES
    /\ \A l \in Calls : \A r \in Range(l.out.retry) : retry_count(r.hdr) <= MAX_RETRIES

C7_Witness ==
    \E m \in Range(queue[INPUT_QUEUE]) :
        ZeroBorn(m.id) /\ retry_count(m.hdr) = MAX_RETRIES

\* C8: when the ledger fetch for an event with non-empty txnIds yields zero
\* records (timeout, network error, non-success response, empty list), the
\* handler issues basic_ack right after the fetch, does not call the scoring,
\* publishes no result, republishes no retry copy and does not reject the
\* delivery, so the message does not enter the dead-letter queue; unless the connection is lost at the acknowledgment the
\* delivery is acknowledged.
C8_ZeroRecordsAcked ==
    \A l \in Calls :
        (Issued(l, "fetch") /\ ZeroRecords(l.resp)) =>
            /\ Len(l.out.ops) >= 2 /\ l.out.ops[1] = "fetch" /\ l.out.ops[2] = "basic_ack"
            /\ ~Issued(l, "detect") /\ ~Issued(l, "publish_results")
            /\ ~Issued(l, "republish")
            /\ l.out.result = <<>> /\ l.out.retry = <<>>
            /\ l.out.settle # "nack"
            /\ l.msg \notin Range(queue[DLQ])
            /\ l.fault = "none" => (l.out.ops = <<"fetch", "basic_ack">> /\ l.out.settle = "ack")

C8_Witness ==
    \E l \in Calls :
        /\ l.msg.body = BodyGood
        /\ l.resp.kind = "timeout"
        /\ l.out.ops = <<"fetch", "basic_ack">>
        /\ l.out.settle = "ack"
        /\ ~Live(l.msg.id)

\* C9: for an event with non-empty txnIds whose fetch returns records and
\* whose scoring flags the records S, the handler publishes exactly one
\* result with the event's companyId and exactly S as anomalies, and then
\* acknowledges.
C9_FlaggedRecordsPublished ==
    \A l \in Calls :
        (/\ Issued(l, "detect")
         /\ l.fault = "none"
         /\ ~oracle_detect_anomalies(fetch_transactions(l.resp), l.oracle).raised) =>
            /\ l.out.result =
                  <<ResultPayload(company_id(EventOf(l)),
                       oracle_detect_anomalies(fetch_transactions(l.resp), l.oracle).value)>>
            /\ l.out.settle = "ack"

\* C10: an exception raised while scoring or while publishing the result
\* sends the delivery down the failure path: the except block runs, the
\* delivery is never acknowledged and no result is published for it.
C10_ScoringOrPublishFailureFails ==
    \A l \in Calls :
        (\/ Issued(l, "detect") /\ ScoringRaises(fetch_transactions(l.resp), l.oracle)
         \/ l.fault \in {"publish_raises", "publish_lost"}) =>
            /\ l.out.caught
            /\ l.out.settle # "ack"
            /\ l.out.result = <<>>

\* what the trained model on disk returns for the records of a call
OracleAnswer(l) == oracle_detect_anomalies(fetch_transactions(l.resp), l.oracle)

\* the number of times a call issued an operation
Times(l, op) == Cardinality({i \in DOMAIN l.out.ops : l.out.ops[i] = op})

\* C11: when the fetch returned records and the trained model flags none of
\* them (it answers without raising, with an empty list), on_message fetches,
\* scores and calls publish_results exactly once; unless a channel operation
\* fails, the one result message carries the event's companyId and an empty
\* anomaly list, it arrives on the result queue, and basic_ack follows as the
\* last operation, as it does when anomalies are found.
C11_EmptyResultPublished ==
    \A l \in Calls :
        (Issued(l, "detect") /\ ~OracleAnswer(l).raised /\ OracleAnswer(l).value = <<>>) =>
            /\ Len(l.out.ops) >= 3
            /\ SubSeq(l.out.ops, 1, 3) = <<"fetch", "detect", "publish_results">>
            /\ Times(l, "publish_results") = 1
            /\ l.fault = "none" =>
                  /\ l.out.ops = <<"fetch", "detect", "publish_results", "basic_ack">>
                  /\ l.out.result = <<ResultPayload(company_id(EventOf(l)), <<>>)>>
                  /\ l.out.settle = "ack"
                  /\ queue[RESULT_QUEUE] # <<>>
                  /\ queue[RESULT_QUEUE][Len(queue[RESULT_QUEUE])] = l.out.result[1]

C11_Witness ==
    \E l \in Calls :
        /\ Len(fetch_transactions(l.resp)) = 3
        /\ l.oracle.present /\ ~l.oracle.raises /\ l.oracle.outliers = {}
        /\ l.out.result = <<ResultPayload(7, <<>>)>>
        /\ l.out.settle = "ack"
        /\ l.out.result[1] \in Range(queue[RESULT_QUEUE])

\* C12: no exception leaves fetch_transactions: for a timeout, a connection
\* error, a non-200 status and a 200 response whose body does not decode it
\* returns the empty list, and only a 200 response that decodes yields the
\* decoded records; so a failed fetch alone never sends on_message into its
\* except block.
C12_FetchNeverRaises ==
    \A l \in Calls :
        Issued(l, "fetch") =>
            /\ ~FetchOutcome(l.resp).raised
            /\ fetch_transactions(l.resp) =
                  IF l.resp.kind = "http" /\ l.resp.status = 200 /\ l.resp.decodes
                  THEN l.resp.json ELSE <<>>
            /\ (ZeroRecords(l.resp) /\ l.fault = "none") => ~l.out.caught

C12_Witness ==
    \E l \in Calls :
        /\ l.resp.kind = "http" /\ l.resp.status = 200 /\ ~l.resp.decodes
        /\ l.out.ops = <<"fetch", "basic_ack">>
        /\ l.out.settle = "ack"

\* C13: for an event with N txnIds whose fetch returns N records, with a
\* trained model on disk, the model is asked to score exactly once during the
\* call, with the N feature vectors of the records in the order the ledger
\* returned them.
C13_OracleInvokedOnceInOrder ==
    \A l \in Calls :
        (/\ Issued(l, "detect")
         /\ l.oracle.present
         /\ Len(fetch_transactions(l.resp)) = Len(txn_ids(EventOf(l)))) =>
            /\ Len(OracleInvocations(fetch_transactions(l.resp), l.oracle)) = 1
            /\ \A X \in Range(OracleInvocations(fetch_transactions(l.resp), l.oracle)) :
                  /\ Len(X) = Len(txn_ids(EventOf(l)))
                  /\ X = extract_features(fetch_transactions(l.resp))

\* C20: the categoryId of the feature vector built for a record is a
\* function of the record's categoryName: -1 for an empty name, an integer in
\* 0..999 for every other name, the same integer for the same name.
C20_CategoryIdFromName ==
    \A l \in Calls :
        Issued(l, "detect") =>
            LET txns == fetch_transactions(l.resp)
                X == extract_features(txns)
                named == {i \in DOMAIN txns : "categoryName" \in DOMAIN txns[i]}
            IN  \A i \in named :
                   /\ txns[i].categoryName = "" => X[i].category_id = -1
                   /\ txns[i].categoryName # "" => X[i].category_id \in 0..999
                   /\ \A j \in named :
                         txns[i].categoryName = txns[j].categoryName =>
                            X[i].category_id = X[j].category_id

\* C18: no exception leaves on_message unless a channel operation fails,
\* however often a body is delivered; and a delivery without headers, or with
\* headers that lack x-retry-count, is handled with a retry counter of 0.
C18_NeverCrashesCounterDefaultsToZero ==
    \A l \in Calls :
        /\ l.fault = "none" => ~l.out.escaped
        /\ ~HasKey(l.msg.hdr, "x-retry-count") => l.rc = 0

\* C15: a step in which a connection attempt fails, a connection drops or
\* an exception leaves on_message (the steps that count a failure) never ends
\* the loop of a worker, and leaves the worker it happened to at the
\* connection attempt; the loop of a worker ends only by a step that is no
\* failure, the interrupt from outside.
C15_LoopNeverGivesUp ==
    [][ /\ faults' # faults =>
              /\ \A w \in Workers : pc'[w] = "stopped" => pc[w] = "stopped"
              /\ \E w \in Workers :
                    pc[w] \in {"connect", "consuming"} /\ pc'[w] = "connect"
        /\ \A w \in Workers :
              (pc[w] # "stopped" /\ pc'[w] = "stopped") =>
                  (faults' = faults /\ last' = <<>>)
      ]_vars

C15_Witness ==
    \E l \in Calls :
        /\ l.out.escaped
        /\ l.exc = "AMQPChannelError"
        /\ faults = MaxFaults
        /\ pc[l.worker] = "connect"

\* every declaration of setup_topology has been made at the broker
Declared(t) == t # NoTopology /\ DeclareAll(t, Declarations).topology = t

\* C16: a worker holds a delivery, and on_message is called for it, only on
\* a connection on which setup_topology has completed: the worker has passed
\* the setup step of its current connection, the channel's prefetch bound is
\* set, and the exchanges, queues and bindings are all declared.
C16_SetupBeforeFirstDelivery ==
    /\ \A w \in Workers :
          unacked[w] # <<>> =>
              pc[w] = "consuming" /\ prefetch[w] = PrefetchCount /\ Declared(topology)
    /\ \A w \in Workers : pc[w] \in {"connect", "setup"} => unacked[w] = <<>>
    /\ \A l \in Calls : Declared(topology) /\ prefetch[l.worker] = PrefetchCount

C16_Witness ==
    \E w \in Workers :
        /\ faults = MaxFaults
        /\ pc[w] = "consuming"
        /\ unacked[w] # <<>>
        /\ prefetch[w] = PrefetchCount
        /\ Declared(topology)

\* C17: the broker never refuses a declaration of setup_topology, whatever
\* has been declared before; running setup_topology on a broker where it has
\* run leaves exchanges, queues, queue arguments and bindings as they are; and
\* every worker that has run it has the prefetch bound of PrefetchCount.
C17_SetupIdempotent ==
    /\ [](/\ DeclareAll(topology, Declarations).ok
          /\ setup_topology(setup_topology(topology)) = setup_topology(topology)
          /\ \A w \in Workers : pc[w] = "consuming" => prefetch[w] = PrefetchCount)
    /\ [][topology # NoTopology => topology' = topology]_vars

C17_Witness ==
    /\ \A w \in Workers : pc[w] = "consuming" /\ prefetch[w] = PrefetchCount
    /\ faults = MaxFaults
    /\ topology = setup_topology(NoTopology)
    /\ QueueArguments(topology, INPUT_QUEUE) # {}

\* C19: for an event sent with an absent or zero counter, the counter
\* on_message reads from a delivery equals the number of earlier calls for
\* the event that ran to their end, in whichever worker processes they ran;
\* so the calls see 0, 1, 2, 3 in this order (a call that an exception left
\* is repeated with the counter it saw), a republished copy carries the
\* number of republishes so far, and that number never exceeds MAX_RETRIES.
C19_CounterTravelsWithMessage ==
    \A l \in Calls :
        ZeroBorn(l.msg.id) =>
            /\ l.rc \in 0..MAX_RETRIES
            /\ l.rc = handled[l.msg.id] - aborted[l.msg.id] - (IF l.out.escaped THEN 0 ELSE 1)
            /\ l.worker \in handlers[l.msg.id]
            /\ \A r \in Range(l.out.retry) :
                  /\ retry_count(r.hdr) = l.rc + 1
                  /\ retry_count(r.hdr) <= MAX_RETRIES

C19_Witness ==
    \E l \in Calls :
        /\ ZeroBorn(l.msg.id)
        /\ handlers[l.msg.id] = Workers
        /\ aborted[l.msg.id] = 0
        /\ handled[l.msg.id] = MAX_RETRIES + 1
        /\ l.rc = MAX_RETRIES
        /\ l.out.settle = "nack"

\* C14: in every reachable state each worker holds at most one
\* unacknowledged delivery, and the broker hands a delivery only to a worker
\* that holds none: the one it held was acknowledged, rejected or requeued
\* before.  on_message runs to its end in one step of a worker, so no two
\* deliveries are in on_message at once inside one worker.
C14_OneUnackedPerConsumer ==
    /\ [](\A w \in Workers : Len(unacked[w]) <= 1)
    /\ [][\A w \in Workers :
             Len(unacked'[w]) > Len(unacked[w]) => unacked[w] = <<>>]_vars

C14_Witness ==
    \E w \in Workers :
        /\ Len(unacked[w]) = 1
        /\ queue[INPUT_QUEUE] # <<>>
        /\ unacked[w][1].id # queue[INPUT_QUEUE][1].id
        /\ pc[w] = "consuming" /\ prefetch[w] = PrefetchCount
        /\ \A v \in Workers \ {w} : pc[v] # "consuming"

\* C21: a fetched record whose date is no date, or whose amount is absent or
\* is no number, is mapped to a feature vector without raising: day_of_week
\* is 0 for the bad date, amount is 0 for the bad amount, and the scoring of
\* the batch it is in does not raise because of it.
C21_BadRecordStillScored ==
    \A l \in Calls :
        (Issued(l, "detect") /\ l.oracle.present /\ ~l.oracle.raises) =>
            LET txns == fetch_transactions(l.resp)
                X == extract_features(txns)
            IN  /\ ~ExtractRaises(txns)
                /\ ~OracleAnswer(l).raised
                /\ \A i \in DOMAIN txns :
                      /\ Field(txns[i], "date", "") = BadDate => X[i].day_of_week = 0
                      /\ "amount" \notin DOMAIN txns[i] => X[i].amount = 0
                      /\ IntRaises(Field(txns[i], "amount", IntValue(0))) => X[i].amount = 0

\* C22: POST /anomalies, which applies the scoring oracle to the records of
\* the request, answers with an empty list for every input when no trained
\* model is on disk; with a model on disk, what it returns is exactly the
\* input records the model predicts as outliers, as a sub-sequence of the
\* input in input order; and it fails only when the scoring raises.
C22_OracleReturnsOutliersInOrder ==
    \A c \in ReadClients :
        threads[c].route = "/anomalies" =>
            LET txns == threads[c].transactions
                oracle == threads[c].oracle
                response == threads[c].response
                out == response.anomalies
                outliers == {i \in DOMAIN txns : txns[i].id \in oracle.outliers}
            IN  /\ ~oracle.present => response = [code |-> 200, anomalies |-> <<>>]
                /\ (oracle.present /\ response.code = 200) =>
                      \E f \in [DOMAIN out -> DOMAIN txns] :
                         /\ \A j, k \in DOMAIN out : j < k => f[j] < f[k]
                         /\ {f[k] : k \in DOMAIN out} = outliers
                         /\ \A k \in DOMAIN out : out[k] = txns[f[k]]
                /\ response.code = 500 =>
                      oracle.present /\ (oracle.raises \/ ExtractRaises(txns))

C22_Witness ==
    \E c \in ReadClients :
        /\ threads[c].route = "/anomalies"
        /\ threads[c].oracle.outliers = {1, 3}
        /\ Len(threads[c].transactions) = 3
        /\ threads[c].response = [code |-> 200, anomalies |-> <<ScoredRecord(1), ScoredRecord(3)>>]

\* the requests of the reading routes the server is handling or has answered
Reading == {c \in ReadClients : threads[c].route \in ReadRoutes}

\* C23: while train_model calls run, every call of predict_category and
\* predict_with_confidence works on one pipeline object read once from the
\* handle, which is None or fully fitted; the handle never holds a pipeline
\* that is not fitted and never goes back to None, so a request that arrived
\* with a model loaded is never answered 'Uncategorized'; a fitted pipeline
\* is never changed again; and a read can always take its next step, whatever
\* the train_model calls are doing.
C23_ReadersSeeCompleteSnapshot ==
    /\ [](/\ _pipeline.model = None \/ objects[_pipeline.model].fitted
          /\ \A c \in Reading :
                /\ threads[c].model = None \/ objects[threads[c].model].fitted
                /\ threads[c].pc = "done" =>
                      /\ threads[c].category = predict_category(threads[c].model, objects)
                      /\ threads[c].seen # None => threads[c].category # "Uncategorized"
                /\ threads[c].pc = "read" => ENABLED ReadHandle(c)
                /\ threads[c].pc = "predict" => ENABLED Predict(c))
    /\ [][/\ _pipeline.model # None => _pipeline'.model # None
          /\ \A i \in DOMAIN objects : objects[i].fitted => objects'[i] = objects[i]
          /\ \A c \in Reading :
                threads[c].pc = "predict" => threads'[c].model = threads[c].model]_vars

C23_Witness ==
    \E c \in Reading : \E t \in TrainClients :
        /\ threads[c].pc = "done"
        /\ threads[c].model # None
        /\ threads[c].category = "Office Rent"
        /\ threads[c].seen = threads[c].model
        /\ _pipeline.model # threads[c].model
        /\ threads[t].status = "ok" /\ threads[t].pipeline = _pipeline.model

\* the model in memory, as the file would hold it
HeldModel == IF _pipeline.model = None THEN <<>> ELSE <<objects[_pipeline.model]>>

\* C24: whenever no train_model call is running, the model _pipeline['model']
\* holds is the model saved at MODEL_PATH.
C24_MemoryIsWhatWasSaved ==
    (\A c \in TrainClients : threads[c].pc = 0) => HeldModel = model_file

\* C29: a train_model call returns status 'error' exactly for a CSV that is
\* missing, unreadable, without the two columns or with fewer than 20 valid
\* rows; such a call has written neither _pipeline['model'] nor the model
\* file, and the step in which it returns leaves the handle, the file and
\* every pipeline object as they are.
C29_FailedTrainLeavesModel ==
    /\ [](\A c \in TrainClients :
             (threads[c].route = "/train" /\ threads[c].pc = 0) =>
                 /\ threads[c].status = "error" <=> CsvError(threads[c].csv_path) # ""
                 /\ threads[c].status = "error" => threads[c].writes = {})
    /\ [][\A c \in TrainClients :
             (threads[c].pc > 0 /\ threads'[c].pc = 0 /\ threads'[c].status = "error") =>
                 /\ _pipeline' = _pipeline
                 /\ model_file' = model_file
                 /\ objects' = objects]_vars

C29_Witness ==
    \E c \in TrainClients :
        /\ threads[c].status = "error"
        /\ threads[c].csv_path = "short.csv"
        /\ _pipeline.model # None
        /\ model_file = <<objects[_pipeline.model]>>
        /\ objects[_pipeline.model].csv_path = "custom.csv"

\* C25: in a call whose fetch returned records, every basic_ack comes after
\* publish_results; a delivery acknowledged in such a call has its result on
\* the result queue; and when the connection is lost between the two, the
\* result was handed to the broker, the delivery is not acknowledged and the
\* broker has it back on the input queue for redelivery.
C25_PublishBeforeAck ==
    \A l \in Calls :
        (Issued(l, "fetch") /\ fetch_transactions(l.resp) # <<>>) =>
            /\ \A i \in DOMAIN l.out.ops :
                  l.out.ops[i] = "basic_ack" =>
                      \E j \in 1..(i - 1) : l.out.ops[j] = "publish_results"
            /\ l.out.settle = "ack" =>
                  /\ l.out.result # <<>>
                  /\ queue[RESULT_QUEUE] # <<>>
                  /\ queue[RESULT_QUEUE][Len(queue[RESULT_QUEUE])] = l.out.result[1]
            /\ l.fault = "ack_lost" =>
                  /\ l.out.result # <<>>
                  /\ l.out.settle = "none"
                  /\ l.msg.id \notin ackedIds
                  /\ l.msg \in Range(queue[INPUT_QUEUE])

C25_Witness ==
    \E l \in Calls :
        /\ fetch_transactions(l.resp) # <<>>
        /\ l.fault = "ack_lost"
        /\ l.out.result # <<>>
        /\ l.out.result[1] \in Range(queue[RESULT_QUEUE])
        /\ l.msg.id \notin ackedIds
        /\ queue[INPUT_QUEUE] # <<>> /\ queue[INPUT_QUEUE][1] = l.msg

\* C26: every call of on_message issues exactly one of basic_ack and
\* basic_nack for its delivery, and the delivery is settled by it.
C26_SettledExactlyOnce ==
    \A l \in Calls :
        /\ Times(l, "basic_ack") + Times(l, "basic_nack") = 1
        /\ l.out.settle \in {"ack", "nack"}

\* C27: every event sent to the input queue is acknowledged, held
\* unacknowledged by a worker, on the input queue, or on the dead-letter
\* queue; so also after a reject whose retry republish failed.
C27_NoEventLost ==
    \A e \in 1..Len(published) : e \in ackedIds \/ Live(e) \/ DeadLettered(e)

C27_Witness ==
    \E l \in Calls :
        /\ l.fault = "republish_lost"
        /\ l.out.settle = "nack"
        /\ l.out.retry = <<>>
        /\ ~Live(l.msg.id)
        /\ l.msg.id \notin ackedIds
        /\ DeadLettered(l.msg.id)

\* every message of the events: on the queues the events travel and with the
\* workers
EventMessages ==
    Range(queue[INPUT_QUEUE]) \cup Range(queue[DLQ]) \cup UNION {Range(unacked[w]) : w \in Workers}

====
